---- MODULE Spec2Model ----
(***************************************************************************)
(* Client-side data synchronisation layer of the cowork mobile client:     *)
(* ProjectsProvider (contexts/ProjectsContext.tsx) against the backend      *)
(* relations `projects` and `project_members` and the row-change channel.   *)
(*                                                                         *)
(* One action is one turn of the JavaScript event loop: the code that runs  *)
(* from the arrival of a response (or of an event) up to the next `await`.  *)
(* The backend processes a request at the moment its response is taken.     *)
(* A Project row keeps the columns the store's logic reads or that can      *)
(* differ between two lookups of the same row: id, user_id and due_date.    *)
(***************************************************************************)
EXTENDS Integers, Sequences, FiniteSets, TLC

\* ---------------------------------------------------------------- domains
Users == {"u1", "u2"}
\* the users who sign in on the device under Spec
Device == {"u1"}
Pids == {"p1", "p2"}
DueDates == {"null", "d1"}
RoleNames == {"admin", "member", "designer"}
NoUser == "none"
NoId == "none"
NoProject == [id |-> NoId, user_id |-> NoUser, due_date |-> "null"]

\* bounds of the model
MaxFetch == 1
MaxNotifs == 1
\* runs of fetchProjects in flight at a time under SpecSession
MaxRuns == 2

VARIABLES
  srvProjects,  \* relation projects: set of rows [id, user_id, due_date]
  srvUsed,      \* identifiers the backend has generated so far
  srvMembers,   \* relation project_members: set of rows [project_id, user_id, role]
  user,         \* useAuth().user as seen by ProjectsProvider
  projects,     \* useState<Project[]>: the locally held project list
  channel,      \* user id in the filters of the subscribed channel, or NoUser
  notifs,       \* row-change events queued for the subscribed channel
  fetches,      \* runs of fetchProjects, each suspended at an await
  op,           \* the invocation of an exposed operation, suspended at an await
  lastFetch,    \* history: ownedProjects / memberProjects of the last merge (lines 85-86)
  mounted,      \* ProjectsProvider is mounted
  channels,     \* the channels registered with the realtime client, by the user of their filters
  session,      \* AuthProvider: the user of the session held, or NoUser for null
  loading,      \* AuthProvider: the loading flag
  getSession,   \* AuthProvider: the promise of supabase.auth.getSession()
  beforeJoin    \* history: the list and the user's membership rows at the last call of joinProject

vars == <<srvProjects, srvUsed, srvMembers, user, projects, channel, notifs,
          fetches, op, lastFetch, mounted, channels, session, loading, getSession,
          beforeJoin>>

srvVars == <<srvProjects, srvUsed, srvMembers>>

authVars == <<session, loading, getSession>>

\* what the handlers of the store and the backend leave alone
effVars == <<mounted, channels, authVars, beforeJoin>>

\* ---------------------------------------------------------------- helpers
Ids(s) == {s[i].id : i \in DOMAIN s}

\* every ordering of a finite set of rows (a select without ORDER BY)
Orderings(S) ==
  {s \in [1..Cardinality(S) -> S] : \A i, j \in 1..Cardinality(S) : i # j => s[i] # s[j]}

\* variant: the last index with that id (findLastIndex)
findLastIndex(self, id) ==
  IF \E i \in DOMAIN self : self[i].id = id
  THEN CHOOSE i \in DOMAIN self :
         self[i].id = id /\ \A j \in DOMAIN self : self[j].id = id => j <= i
  ELSE 0

\* Array.prototype.findIndex((p) => p.id === id); 0 stands for -1
findIndex(self, id) ==
  IF \E i \in DOMAIN self : self[i].id = id
  THEN CHOOSE i \in DOMAIN self :
         self[i].id = id /\ \A j \in DOMAIN self : self[j].id = id => i <= j
  ELSE 0

RECURSIVE FilterFirst(_, _)
FilterFirst(self, index) ==
  IF index > Len(self) THEN <<>>
  ELSE (IF index = findIndex(self, self[index].id) THEN <<self[index]>> ELSE <<>>)
       \o FilterFirst(self, index + 1)

\* variant: the concatenation is stored without the filter
uniqueProjectsUnfiltered(allProjects) == allProjects

\* allProjects.filter((project, index, self) => index === self.findIndex(...))
uniqueProjects(allProjects) == FilterFirst(allProjects, 1)

\* variant: the comparison of the filter is inverted
FilterOutInverted(prevProjects, id) == SelectSeq(prevProjects, LAMBDA p : p.id = id)

\* prevProjects.filter((p) => p.id !== id)
FilterOut(prevProjects, id) == SelectSeq(prevProjects, LAMBDA p : p.id # id)

\* variant: the guard against duplicates is missing
AppendAlways(prevProjects, np) == Append(prevProjects, np)

\* prevProjects.find(p => p.id === np.id) ? prevProjects : [...prevProjects, np]
AppendIfAbsent(prevProjects, np) ==
  IF \E i \in DOMAIN prevProjects : prevProjects[i].id = np.id
  THEN prevProjects
  ELSE Append(prevProjects, np)

\* ---------------------------------------------------------------- backend
\* .from('projects').select(...).eq('user_id', u)
OwnedRows(u) == {r \in srvProjects : r.user_id = u}

\* .from('project_members').select('project_id').eq('user_id', u)
MemberIdsOf(u) == {m.project_id : m \in {x \in srvMembers : x.user_id = u}}

\* .from('projects').select(...).in('id', ids)
RowsIn(ids) == {r \in srvProjects : r.id \in ids}

Live(id) == \E r \in srvProjects : r.id = id

RowOf(id) == CHOOSE r \in srvProjects : r.id = id

IsMember(id, u) == \E m \in srvMembers : m.project_id = id /\ m.user_id = u

\* the four .on('postgres_changes', ...) registrations of the channel
Subscribed(table, event, rowUser) ==
  /\ channel # NoUser
  /\ \/ table = "projects" /\ event = "INSERT" /\ rowUser = channel
     \/ table = "projects" /\ event = "UPDATE"
     \/ table = "projects" /\ event = "DELETE"
     \/ table = "project_members" /\ event = "INSERT" /\ rowUser = channel

\* the handlers read nothing of the payload but payload.old.id of a DELETE
Emit(q, table, event, rowUser, id) ==
  IF Subscribed(table, event, rowUser)
  THEN Append(q, [table |-> table, event |-> event,
                  id |-> IF event = "DELETE" THEN id ELSE NoId])
  ELSE q

\* ---------------------------------------------------------------- fetchProjects
IdleRun == [pc |-> "idle", user |-> NoUser, ownedProjects |-> <<>>, projectIds |-> {}]

\* the history of merges is kept by the specifications that start with it on
NoFetch == [on |-> TRUE, error |-> "none", ownedProjects |-> <<>>, memberProjects |-> <<>>]

NoHistory == [NoFetch EXCEPT !.on = FALSE]

\* the run that ends: which lookup returned an error, and what the lookups returned
History(error, ownedProjects, memberProjects) ==
  IF lastFetch.on
  THEN [on |-> TRUE, error |-> error, ownedProjects |-> ownedProjects,
        memberProjects |-> memberProjects]
  ELSE lastFetch

\* the runs of fetchProjects the model follows at a time
Slots == DOMAIN fetches

FreeSlots == {r \in Slots : fetches[r].pc = "idle"}

\* fetchProjects(): runs up to the first await, the owned-projects lookup
StartFetch(u) ==
  LET r == CHOOSE x \in FreeSlots : \A y \in FreeSlots : x <= y
  IN [fetches EXCEPT ![r] = [pc |-> "owned", user |-> u,
                              ownedProjects |-> <<>>, projectIds |-> {}]]

\* variant: the result of the lookups is merged into the list held, not stored over it
MergeIntoHeld(r, error, ownedProjects, memberProjects) ==
  /\ projects' = uniqueProjects(projects \o ownedProjects \o memberProjects)
  /\ lastFetch' = History(error, ownedProjects, memberProjects)
  /\ fetches' = [fetches EXCEPT ![r] = IdleRun]

\* lines 85-92: combine, deduplicate, setProjects
Merge(r, error, ownedProjects, memberProjects) ==
  /\ projects' = uniqueProjects(ownedProjects \o memberProjects)
  /\ lastFetch' = History(error, ownedProjects, memberProjects)
  /\ fetches' = [fetches EXCEPT ![r] = IdleRun]

\* variant: an error of the owned-projects lookup returns without setProjects([])
FetchOwnedRespKeeps(r, fail) ==
  /\ fetches[r].pc = "owned"
  /\ IF fail
     THEN /\ fetches' = [fetches EXCEPT ![r] = IdleRun]
          /\ lastFetch' = History("owned", <<>>, <<>>)
          /\ UNCHANGED projects
     ELSE \E owned \in Orderings(OwnedRows(fetches[r].user)) :
          /\ fetches' = [fetches EXCEPT ![r].pc = "memberIds",
                                        ![r].ownedProjects = owned]
          /\ UNCHANGED <<projects, lastFetch>>
  /\ UNCHANGED <<srvVars, user, channel, notifs, op>>
  /\ UNCHANGED effVars

\* lines 45-55: the answer to the owned-projects lookup; fail: it is an error
FetchOwnedResp(r, fail) ==
  /\ fetches[r].pc = "owned"
  /\ IF fail
     THEN \* ownedError: clear projects and stop
          /\ projects' = <<>>
          /\ fetches' = [fetches EXCEPT ![r] = IdleRun]
          /\ lastFetch' = History("owned", <<>>, <<>>)
     ELSE \E owned \in Orderings(OwnedRows(fetches[r].user)) :
          /\ fetches' = [fetches EXCEPT ![r].pc = "memberIds",
                                        ![r].ownedProjects = owned]
          /\ UNCHANGED <<projects, lastFetch>>
  /\ UNCHANGED <<srvVars, user, channel, notifs, op>>
  /\ UNCHANGED effVars

\* variant: an error of the membership-identifier lookup clears the list and stops
FetchMemberIdsRespStops(r, fail) ==
  /\ fetches[r].pc = "memberIds"
  /\ IF fail
     THEN /\ projects' = <<>>
          /\ lastFetch' = History("memberIds", fetches[r].ownedProjects, <<>>)
          /\ fetches' = [fetches EXCEPT ![r] = IdleRun]
     ELSE LET projectIds == MemberIdsOf(fetches[r].user)
          IN IF projectIds = {}
             THEN Merge(r, "none", fetches[r].ownedProjects, <<>>)
             ELSE /\ fetches' = [fetches EXCEPT ![r].pc = "details",
                                                ![r].projectIds = projectIds]
                  /\ UNCHANGED <<projects, lastFetch>>
  /\ UNCHANGED <<srvVars, user, channel, notifs, op>>
  /\ UNCHANGED effVars

\* lines 58-71 (and 85-92 when no identifier came back)
FetchMemberIdsResp(r, fail) ==
  /\ fetches[r].pc = "memberIds"
  /\ IF fail
     THEN \* memberIdsError: projectIds = [], proceed with the owned projects
          Merge(r, "memberIds", fetches[r].ownedProjects, <<>>)
     ELSE LET projectIds == MemberIdsOf(fetches[r].user)
          IN IF projectIds = {}
             THEN Merge(r, "none", fetches[r].ownedProjects, <<>>)
             ELSE /\ fetches' = [fetches EXCEPT ![r].pc = "details",
                                                ![r].projectIds = projectIds]
                  /\ UNCHANGED <<projects, lastFetch>>
  /\ UNCHANGED <<srvVars, user, channel, notifs, op>>
  /\ UNCHANGED effVars

\* lines 73-92
FetchDetailsResp(r, fail) ==
  /\ fetches[r].pc = "details"
  /\ IF fail
     THEN \* projectsError: memberProjects stays []
          Merge(r, "projects", fetches[r].ownedProjects, <<>>)
     ELSE \E projectsData \in Orderings(RowsIn(fetches[r].projectIds)) :
            Merge(r, "none", fetches[r].ownedProjects, projectsData)
  /\ UNCHANGED <<srvVars, user, channel, notifs, op>>
  /\ UNCHANGED effVars

\* ---------------------------------------------------------------- effect on [user]
\* variant: the cleanup leaves the channel registered
removeChannelNot(chs, c) == chs

\* supabase.removeChannel(channel): chs without the channel c the effect created
\* (NoUser: the effect created none)
removeChannel(chs, c) ==
  IF \E i \in DOMAIN chs : chs[i] = c
  THEN LET i == CHOOSE k \in DOMAIN chs : chs[k] = c /\ \A j \in DOMAIN chs : chs[j] = c => k <= j
       IN SubSeq(chs, 1, i - 1) \o SubSeq(chs, i + 1, Len(chs))
  ELSE chs

\* variant: the effect returns without setProjects([]) when there is no user
RunEffectKeepsList(u) ==
  /\ mounted
  /\ u # user
  /\ user' = u
  /\ notifs' = <<>>
  /\ IF u = NoUser
     THEN /\ channel' = NoUser
          /\ channels' = removeChannel(channels, channel)
          /\ UNCHANGED <<fetches, projects>>
     ELSE /\ FreeSlots # {}
          /\ fetches' = StartFetch(u)
          /\ channel' = u
          /\ channels' = Append(removeChannel(channels, channel), u)
          /\ UNCHANGED projects
  /\ UNCHANGED <<srvVars, op, lastFetch, mounted, beforeJoin>>

\* useAuth() hands a new user to the provider: cleanup of the previous effect
\* (removeChannel), then the effect body
RunEffect(u) ==
  /\ mounted
  /\ u # user
  /\ user' = u
  /\ notifs' = <<>>
  /\ IF u = NoUser
     THEN /\ projects' = <<>>
          /\ channel' = NoUser
          /\ channels' = removeChannel(channels, channel)
          /\ UNCHANGED fetches
     ELSE /\ FreeSlots # {}
          /\ fetches' = StartFetch(u)
          /\ channel' = u
          /\ channels' = Append(removeChannel(channels, channel), u)
          /\ UNCHANGED projects
  /\ UNCHANGED <<srvVars, op, lastFetch, mounted, beforeJoin>>

\* the session holder's handler of an auth event that changes the user (part_000,
\* lines 31-37): setSession, setUser, setLoading(false); the provider's effect runs
SetUser(u) ==
  /\ RunEffect(u)
  /\ session' = u
  /\ loading' = FALSE
  /\ UNCHANGED getSession

\* the provider unmounts: the cleanup of the effect runs and no effect follows
Unmount ==
  /\ mounted
  /\ mounted' = FALSE
  /\ channels' = removeChannel(channels, channel)
  /\ channel' = NoUser
  /\ notifs' = <<>>
  /\ UNCHANGED <<srvVars, user, projects, fetches, op, lastFetch, authVars, beforeJoin>>

\* ---------------------------------------------------------------- channel handlers
\* variant: the DELETE handler calls fetchProjects like the other three
DeliverRefetch ==
  /\ notifs # <<>>
  /\ notifs' = Tail(notifs)
  /\ FreeSlots # {}
  /\ fetches' = StartFetch(channel)
  /\ UNCHANGED <<srvVars, user, projects, channel, op, lastFetch>>
  /\ UNCHANGED effVars

\* variant: the UPDATE handler does nothing
DeliverIgnoresUpdate ==
  /\ notifs # <<>>
  /\ notifs' = Tail(notifs)
  /\ LET payload == Head(notifs)
     IN IF payload.table = "projects" /\ payload.event = "DELETE"
        THEN /\ projects' = FilterOut(projects, payload.id)
             /\ UNCHANGED fetches
        ELSE IF payload.event = "UPDATE"
        THEN UNCHANGED <<projects, fetches>>
        ELSE /\ FreeSlots # {}
             /\ fetches' = StartFetch(channel)
             /\ UNCHANGED projects
  /\ UNCHANGED <<srvVars, user, channel, op, lastFetch>>
  /\ UNCHANGED effVars

Deliver ==
  /\ notifs # <<>>
  /\ notifs' = Tail(notifs)
  /\ LET payload == Head(notifs)
     IN IF payload.table = "projects" /\ payload.event = "DELETE"
        THEN /\ projects' = FilterOut(projects, payload.id)
             /\ UNCHANGED fetches
        ELSE /\ FreeSlots # {}
             /\ fetches' = StartFetch(channel)
             /\ UNCHANGED projects
  /\ UNCHANGED <<srvVars, user, channel, op, lastFetch>>
  /\ UNCHANGED effVars

\* ---------------------------------------------------------------- operations
NoOp == [kind |-> "none", pc |-> "done", user |-> NoUser, id |-> NoId,
         project |-> NoProject, error |-> "none", result |-> "none"]

\* the invocation has returned: its argument, its result and the error that its last
\* request returned ("nouser": the guard on user returned before any request;
\* "invalid": verify_project_password returned no row)
Returned(kind, id, error, result) ==
  [kind |-> kind, pc |-> "done", user |-> NoUser, id |-> id,
   project |-> NoProject, error |-> error, result |-> result]

Awaiting(kind, pc, id, project) ==
  [kind |-> kind, pc |-> pc, user |-> user, id |-> id,
   project |-> project, error |-> "none", result |-> "none"]

\* addProject: lines 137-145
CallAddProject ==
  /\ op.pc = "done"
  /\ op' = IF user = NoUser
           THEN Returned("addProject", NoId, "nouser", "null")
           ELSE Awaiting("addProject", "insert", NoId, NoProject)
  /\ UNCHANGED <<srvVars, user, projects, channel, notifs, fetches, lastFetch>>
  /\ UNCHANGED effVars

\* variant: the new project is listed as soon as its insert has returned, before
\* the membership insert is answered
AddInsertRespEager(fail) ==
  /\ op.kind = "addProject" /\ op.pc = "insert"
  /\ IF fail \/ Pids \ srvUsed = {}
     THEN /\ op' = Returned("addProject", NoId, "other", "null")
          /\ UNCHANGED <<srvVars, notifs, projects>>
     ELSE \E id \in Pids \ srvUsed :
          LET newProject == [id |-> id, user_id |-> op.user, due_date |-> "null"]
          IN /\ srvProjects' = srvProjects \cup {newProject}
             /\ srvUsed' = srvUsed \cup {id}
             /\ notifs' = Emit(notifs, "projects", "INSERT", op.user, id)
             /\ Len(notifs') <= MaxNotifs
             /\ op' = [op EXCEPT !.pc = "member", !.project = newProject]
             /\ projects' = AppendIfAbsent(projects, newProject)
             /\ UNCHANGED srvMembers
  /\ UNCHANGED <<user, channel, fetches, lastFetch>>
  /\ UNCHANGED effVars

\* addProject: lines 147-158, the answer to the projects insert; fail: it is an
\* error (so it is when the model has no identifier left to generate)
AddInsertResp(fail) ==
  /\ op.kind = "addProject" /\ op.pc = "insert"
  /\ IF fail \/ Pids \ srvUsed = {}
     THEN /\ op' = Returned("addProject", NoId, "other", "null")
          /\ UNCHANGED <<srvVars, notifs>>
     ELSE \E id \in Pids \ srvUsed :
          LET newProject == [id |-> id, user_id |-> op.user, due_date |-> "null"]
          IN /\ srvProjects' = srvProjects \cup {newProject}
             /\ srvUsed' = srvUsed \cup {id}
             /\ notifs' = Emit(notifs, "projects", "INSERT", op.user, id)
             /\ Len(notifs') <= MaxNotifs
             /\ op' = [op EXCEPT !.pc = "member", !.project = newProject]
             /\ UNCHANGED srvMembers
  /\ UNCHANGED <<user, projects, channel, fetches, lastFetch>>
  /\ UNCHANGED effVars

\* variant: after an error of the membership insert addProject starts over
AddMemberRespRetry(fail) ==
  /\ op.kind = "addProject" /\ op.pc = "member"
  /\ IF fail \/ ~Live(op.project.id) \/ IsMember(op.project.id, op.user)
     THEN /\ op' = [op EXCEPT !.pc = "insert", !.project = NoProject]
          /\ UNCHANGED <<srvVars, notifs, projects>>
     ELSE /\ srvMembers' = srvMembers \cup
               {[project_id |-> op.project.id, user_id |-> op.user, role |-> "admin"]}
          /\ notifs' = Emit(notifs, "project_members", "INSERT", op.user, op.project.id)
          /\ Len(notifs') <= MaxNotifs
          /\ op' = Returned("addProject", op.project.id, "none", op.project.id)
          /\ projects' = AppendIfAbsent(projects, op.project)
          /\ UNCHANGED <<srvProjects, srvUsed>>
  /\ UNCHANGED <<user, channel, fetches, lastFetch>>
  /\ UNCHANGED effVars

\* addProject: lines 160-174, the answer to the admin membership insert; the
\* insert is refused when the project is gone or the row exists
AddMemberResp(fail) ==
  /\ op.kind = "addProject" /\ op.pc = "member"
  /\ IF fail \/ ~Live(op.project.id) \/ IsMember(op.project.id, op.user)
     THEN /\ op' = Returned("addProject", op.project.id, "other", op.project.id)
          /\ UNCHANGED <<srvVars, notifs>>
     ELSE /\ srvMembers' = srvMembers \cup
               {[project_id |-> op.project.id, user_id |-> op.user, role |-> "admin"]}
          /\ notifs' = Emit(notifs, "project_members", "INSERT", op.user, op.project.id)
          /\ Len(notifs') <= MaxNotifs
          /\ op' = Returned("addProject", op.project.id, "none", op.project.id)
          /\ UNCHANGED <<srvProjects, srvUsed>>
  /\ projects' = AppendIfAbsent(projects, op.project)
  /\ UNCHANGED <<user, channel, fetches, lastFetch>>
  /\ UNCHANGED effVars

\* deleteProject: lines 179-180 (no check of user)
CallDeleteProject(id) ==
  /\ op.pc = "done"
  /\ op' = Awaiting("deleteProject", "delete", id, NoProject)
  /\ UNCHANGED <<srvVars, user, projects, channel, notifs, fetches, lastFetch>>
  /\ UNCHANGED effVars

\* deleteProject: lines 181-185; the membership rows of the project go with it
\* variant: the filter is applied whether or not the delete returned an error
DeleteRespAlways(fail) ==
  /\ op.kind = "deleteProject" /\ op.pc = "delete"
  /\ IF fail
     THEN /\ op' = Returned("deleteProject", op.id, "other", "void")
          /\ UNCHANGED <<srvVars, notifs>>
     ELSE /\ srvProjects' = {r \in srvProjects : r.id # op.id}
          /\ srvMembers' = {m \in srvMembers : m.project_id # op.id}
          /\ notifs' = IF Live(op.id)
                       THEN Emit(notifs, "projects", "DELETE", RowOf(op.id).user_id, op.id)
                       ELSE notifs
          /\ Len(notifs') <= MaxNotifs
          /\ op' = Returned("deleteProject", op.id, "none", "void")
          /\ UNCHANGED srvUsed
  /\ projects' = FilterOut(projects, op.id)
  /\ UNCHANGED <<user, channel, fetches, lastFetch>>
  /\ UNCHANGED effVars

\* variant: a delete that succeeds calls fetchProjects instead of filtering
DeleteRespRefetch(fail) ==
  /\ op.kind = "deleteProject" /\ op.pc = "delete"
  /\ IF fail
     THEN /\ op' = Returned("deleteProject", op.id, "other", "void")
          /\ UNCHANGED <<srvVars, notifs, fetches>>
     ELSE /\ srvProjects' = {r \in srvProjects : r.id # op.id}
          /\ srvMembers' = {m \in srvMembers : m.project_id # op.id}
          /\ notifs' = IF Live(op.id)
                       THEN Emit(notifs, "projects", "DELETE", RowOf(op.id).user_id, op.id)
                       ELSE notifs
          /\ Len(notifs') <= MaxNotifs
          /\ FreeSlots # {}
          /\ fetches' = StartFetch(user)
          /\ op' = Returned("deleteProject", op.id, "none", "void")
          /\ UNCHANGED srvUsed
  /\ UNCHANGED <<user, projects, channel, lastFetch>>
  /\ UNCHANGED effVars

DeleteResp(fail) ==
  /\ op.kind = "deleteProject" /\ op.pc = "delete"
  /\ IF fail
     THEN /\ op' = Returned("deleteProject", op.id, "other", "void")
          /\ UNCHANGED <<srvVars, notifs, projects>>
     ELSE /\ srvProjects' = {r \in srvProjects : r.id # op.id}
          /\ srvMembers' = {m \in srvMembers : m.project_id # op.id}
          /\ notifs' = IF Live(op.id)
                       THEN Emit(notifs, "projects", "DELETE", RowOf(op.id).user_id, op.id)
                       ELSE notifs
          /\ Len(notifs') <= MaxNotifs
          /\ projects' = FilterOut(projects, op.id)
          /\ op' = Returned("deleteProject", op.id, "none", "void")
          /\ UNCHANGED srvUsed
  /\ UNCHANGED <<user, channel, fetches, lastFetch>>
  /\ UNCHANGED effVars

\* the rows of project_members of user u
RowsOfUser(u) == {m \in srvMembers : m.user_id = u}

\* the history of joins is kept by the specification that starts with it on
NoJoin == [on |-> FALSE, id |-> NoId, fresh |-> FALSE, projects |-> <<>>, members |-> {}]

\* joinProject(id) is called; fresh: the user neither owns the project nor is a
\* member of it, and the project is not listed
AtJoin(id) ==
  IF beforeJoin.on
  THEN [on |-> TRUE, id |-> id,
        fresh |-> /\ Live(id) /\ RowOf(id).user_id # user
                  /\ ~IsMember(id, user)
                  /\ id \notin Ids(projects),
        projects |-> projects, members |-> RowsOfUser(user)]
  ELSE beforeJoin

\* joinProject: lines 188-197
CallJoinProject(id) ==
  /\ op.pc = "done"
  /\ op' = IF user = NoUser
           THEN Returned("joinProject", id, "nouser", "null")
           ELSE Awaiting("joinProject", "verify", id, NoProject)
  /\ beforeJoin' = AtJoin(id)
  /\ UNCHANGED <<srvVars, user, projects, channel, notifs, fetches, lastFetch>>
  /\ UNCHANGED <<mounted, channels, authVars>>

\* joinProject: lines 199-210 and 231-232, the answer of verify_project_password;
\* passwordOk: the password given is the one of the project
JoinVerifyResp(fail, passwordOk) ==
  /\ op.kind = "joinProject" /\ op.pc = "verify"
  /\ op' = IF fail THEN Returned("joinProject", op.id, "other", "null")
           ELSE IF Live(op.id) /\ passwordOk
                THEN [op EXCEPT !.pc = "member", !.project = RowOf(op.id)]
                ELSE Returned("joinProject", op.id, "invalid", "null")
  /\ UNCHANGED <<srvVars, user, projects, channel, notifs, fetches, lastFetch>>
  /\ UNCHANGED effVars

\* variant: the project is listed whatever error the membership insert returned
JoinMemberRespAppends(fail) ==
  /\ op.kind = "joinProject" /\ op.pc = "member"
  /\ IF fail \/ (~Live(op.project.id) /\ ~IsMember(op.project.id, op.user))
     THEN /\ op' = Returned("joinProject", op.id, "other", "null")
          /\ UNCHANGED <<srvVars, notifs>>
     ELSE IF IsMember(op.project.id, op.user)
     THEN /\ op' = Returned("joinProject", op.id, "23505", op.project.id)
          /\ UNCHANGED <<srvVars, notifs>>
     ELSE /\ srvMembers' = srvMembers \cup
               {[project_id |-> op.project.id, user_id |-> op.user, role |-> "member"]}
          /\ notifs' = Emit(notifs, "project_members", "INSERT", op.user, op.project.id)
          /\ Len(notifs') <= MaxNotifs
          /\ op' = Returned("joinProject", op.id, "none", op.project.id)
          /\ UNCHANGED <<srvProjects, srvUsed>>
  /\ projects' = AppendIfAbsent(projects, op.project)
  /\ UNCHANGED <<user, channel, fetches, lastFetch>>
  /\ UNCHANGED effVars

\* joinProject: lines 212-228, the answer to the membership insert: 23505 when a
\* row for (project, user) exists, another error when the project is gone
JoinMemberResp(fail) ==
  /\ op.kind = "joinProject" /\ op.pc = "member"
  /\ IF fail \/ (~Live(op.project.id) /\ ~IsMember(op.project.id, op.user))
     THEN /\ op' = Returned("joinProject", op.id, "other", "null")
          /\ UNCHANGED <<srvVars, notifs, projects>>
     ELSE IF IsMember(op.project.id, op.user)
     THEN /\ op' = Returned("joinProject", op.id, "23505", op.project.id)
          /\ projects' = AppendIfAbsent(projects, op.project)
          /\ UNCHANGED <<srvVars, notifs>>
     ELSE /\ srvMembers' = srvMembers \cup
               {[project_id |-> op.project.id, user_id |-> op.user, role |-> "member"]}
          /\ notifs' = Emit(notifs, "project_members", "INSERT", op.user, op.project.id)
          /\ Len(notifs') <= MaxNotifs
          /\ op' = Returned("joinProject", op.id, "none", op.project.id)
          /\ projects' = AppendIfAbsent(projects, op.project)
          /\ UNCHANGED <<srvProjects, srvUsed>>
  /\ UNCHANGED <<user, channel, fetches, lastFetch>>
  /\ UNCHANGED effVars

\* joinRole: lines 235-243
CallJoinRole(projectId, role) ==
  /\ op.pc = "done"
  /\ op' = IF user = NoUser
           THEN Returned("joinRole", projectId, "nouser", "void")
           ELSE [Awaiting("joinRole", "upsert", projectId, NoProject)
                   EXCEPT !.result = role]
  /\ UNCHANGED <<srvVars, user, projects, channel, notifs, fetches, lastFetch>>
  /\ UNCHANGED effVars

\* variant: joinRole inserts its row beside the one the pair has
JoinRoleRespInsert(fail) ==
  /\ op.kind = "joinRole" /\ op.pc = "upsert"
  /\ IF fail \/ ~Live(op.id)
     THEN /\ op' = Returned("joinRole", op.id, "other", "void")
          /\ UNCHANGED <<srvVars, notifs>>
     ELSE /\ srvMembers' = srvMembers
               \cup {[project_id |-> op.id, user_id |-> op.user, role |-> op.result]}
          /\ notifs' = Emit(notifs, "project_members", "INSERT", op.user, op.id)
          /\ Len(notifs') <= MaxNotifs
          /\ op' = Returned("joinRole", op.id, "none", "void")
          /\ UNCHANGED <<srvProjects, srvUsed>>
  /\ UNCHANGED <<user, projects, channel, fetches, lastFetch>>
  /\ UNCHANGED effVars

\* variant: joinRole writes the default role whatever its argument
JoinRoleRespDefault(fail) ==
  /\ op.kind = "joinRole" /\ op.pc = "upsert"
  /\ IF fail \/ ~Live(op.id)
     THEN /\ op' = Returned("joinRole", op.id, "other", "void")
          /\ UNCHANGED <<srvVars, notifs>>
     ELSE /\ srvMembers' =
               {m \in srvMembers : ~(m.project_id = op.id /\ m.user_id = op.user)}
               \cup {[project_id |-> op.id, user_id |-> op.user, role |-> "member"]}
          /\ notifs' = IF IsMember(op.id, op.user)
                       THEN notifs
                       ELSE Emit(notifs, "project_members", "INSERT", op.user, op.id)
          /\ Len(notifs') <= MaxNotifs
          /\ op' = Returned("joinRole", op.id, "none", "void")
          /\ UNCHANGED <<srvProjects, srvUsed>>
  /\ UNCHANGED <<user, projects, channel, fetches, lastFetch>>
  /\ UNCHANGED effVars

\* variant: joinRole puts the project in the list as joinProject does
JoinRoleRespLists(fail) ==
  /\ op.kind = "joinRole" /\ op.pc = "upsert"
  /\ IF fail \/ ~Live(op.id)
     THEN /\ op' = Returned("joinRole", op.id, "other", "void")
          /\ UNCHANGED <<srvVars, notifs, projects>>
     ELSE /\ srvMembers' =
               {m \in srvMembers : ~(m.project_id = op.id /\ m.user_id = op.user)}
               \cup {[project_id |-> op.id, user_id |-> op.user, role |-> op.result]}
          /\ notifs' = IF IsMember(op.id, op.user)
                       THEN notifs
                       ELSE Emit(notifs, "project_members", "INSERT", op.user, op.id)
          /\ Len(notifs') <= MaxNotifs
          /\ op' = Returned("joinRole", op.id, "none", "void")
          /\ projects' = AppendIfAbsent(projects, RowOf(op.id))
          /\ UNCHANGED <<srvProjects, srvUsed>>
  /\ UNCHANGED <<user, channel, fetches, lastFetch>>
  /\ UNCHANGED effVars

\* joinRole: lines 245-249, the answer to the upsert on (project_id, user_id)
JoinRoleResp(fail) ==
  /\ op.kind = "joinRole" /\ op.pc = "upsert"
  /\ IF fail \/ ~Live(op.id)
     THEN /\ op' = Returned("joinRole", op.id, "other", "void")
          /\ UNCHANGED <<srvVars, notifs>>
     ELSE /\ srvMembers' =
               {m \in srvMembers : ~(m.project_id = op.id /\ m.user_id = op.user)}
               \cup {[project_id |-> op.id, user_id |-> op.user, role |-> op.result]}
          /\ notifs' = IF IsMember(op.id, op.user)
                       THEN notifs
                       ELSE Emit(notifs, "project_members", "INSERT", op.user, op.id)
          /\ Len(notifs') <= MaxNotifs
          /\ op' = Returned("joinRole", op.id, "none", "void")
          /\ UNCHANGED <<srvProjects, srvUsed>>
  /\ UNCHANGED <<user, projects, channel, fetches, lastFetch>>
  /\ UNCHANGED effVars

\* variant: leaveProject issues its delete without looking at user
CallLeaveProjectUnguarded(projectId) ==
  /\ op.pc = "done"
  /\ op' = Awaiting("leaveProject", "leave", projectId, NoProject)
  /\ UNCHANGED <<srvVars, user, projects, channel, notifs, fetches, lastFetch>>
  /\ UNCHANGED effVars

\* leaveProject: lines 252-262
CallLeaveProject(projectId) ==
  /\ op.pc = "done"
  /\ op' = IF user = NoUser
           THEN Returned("leaveProject", projectId, "nouser", "void")
           ELSE Awaiting("leaveProject", "leave", projectId, NoProject)
  /\ UNCHANGED <<srvVars, user, projects, channel, notifs, fetches, lastFetch>>
  /\ UNCHANGED effVars

\* leaveProject: lines 264-268, the answer to the membership delete
\* variant: the row is deleted and the list keeps the project
LeaveRespKeepsEntry(fail) ==
  /\ op.kind = "leaveProject" /\ op.pc = "leave"
  /\ IF fail
     THEN /\ op' = Returned("leaveProject", op.id, "other", "void")
          /\ UNCHANGED <<srvVars, projects>>
     ELSE /\ srvMembers' =
               {m \in srvMembers : ~(m.project_id = op.id /\ m.user_id = op.user)}
          /\ projects' = projects
          /\ op' = Returned("leaveProject", op.id, "none", "void")
          /\ UNCHANGED <<srvProjects, srvUsed>>
  /\ UNCHANGED <<user, channel, notifs, fetches, lastFetch>>
  /\ UNCHANGED effVars

LeaveResp(fail) ==
  /\ op.kind = "leaveProject" /\ op.pc = "leave"
  /\ IF fail
     THEN /\ op' = Returned("leaveProject", op.id, "other", "void")
          /\ UNCHANGED <<srvVars, projects>>
     ELSE /\ srvMembers' =
               {m \in srvMembers : ~(m.project_id = op.id /\ m.user_id = op.user)}
          /\ projects' = FilterOut(projects, op.id)
          /\ op' = Returned("leaveProject", op.id, "none", "void")
          /\ UNCHANGED <<srvProjects, srvUsed>>
  /\ UNCHANGED <<user, channel, notifs, fetches, lastFetch>>
  /\ UNCHANGED effVars

\* ---------------------------------------------------------------- other clients
\* the same requests issued by another installation of the app, as user u

\* addProject's insert into projects
RemoteInsertProject(u) ==
  /\ \E id \in Pids \ srvUsed :
       /\ srvProjects' = srvProjects \cup {[id |-> id, user_id |-> u, due_date |-> "null"]}
       /\ srvUsed' = srvUsed \cup {id}
       /\ notifs' = Emit(notifs, "projects", "INSERT", u, id)
  /\ Len(notifs') <= MaxNotifs
  /\ UNCHANGED <<srvMembers, user, projects, channel, fetches, op, lastFetch>>
  /\ UNCHANGED effVars

\* handleSaveTasks: .from('projects').update({ tasks_content }).eq('id', id);
\* the row changes in a column the store does not read
RemoteSaveTasks(id) ==
  /\ Live(id)
  /\ notifs' = Emit(notifs, "projects", "UPDATE", RowOf(id).user_id, id)
  /\ Len(notifs') <= MaxNotifs
  /\ UNCHANGED <<srvVars, user, projects, channel, fetches, op, lastFetch>>
  /\ UNCHANGED effVars

\* handleSaveDueDate: .from('projects').update({ due_date }).eq('id', id)
RemoteUpdateDueDate(id, due) ==
  /\ Live(id)
  /\ RowOf(id).due_date # due
  /\ srvProjects' = (srvProjects \ {RowOf(id)}) \cup {[RowOf(id) EXCEPT !.due_date = due]}
  /\ notifs' = Emit(notifs, "projects", "UPDATE", RowOf(id).user_id, id)
  /\ Len(notifs') <= MaxNotifs
  /\ UNCHANGED <<srvUsed, srvMembers, user, projects, channel, fetches, op, lastFetch>>
  /\ UNCHANGED effVars

\* deleteProject's delete
RemoteDeleteProject(id) ==
  /\ Live(id)
  /\ srvProjects' = {r \in srvProjects : r.id # id}
  /\ srvMembers' = {m \in srvMembers : m.project_id # id}
  /\ notifs' = Emit(notifs, "projects", "DELETE", RowOf(id).user_id, id)
  /\ Len(notifs') <= MaxNotifs
  /\ UNCHANGED <<srvUsed, user, projects, channel, fetches, op, lastFetch>>
  /\ UNCHANGED effVars

\* addProject's / joinProject's insert into project_members
RemoteInsertMember(id, u) ==
  /\ Live(id)
  /\ ~IsMember(id, u)
  /\ srvMembers' = srvMembers \cup
       {[project_id |-> id, user_id |-> u,
         role |-> IF RowOf(id).user_id = u THEN "admin" ELSE "member"]}
  /\ notifs' = Emit(notifs, "project_members", "INSERT", u, id)
  /\ Len(notifs') <= MaxNotifs
  /\ UNCHANGED <<srvProjects, srvUsed, user, projects, channel, fetches, op, lastFetch>>
  /\ UNCHANGED effVars

\* leaveProject's delete
RemoteDeleteMember(id, u) ==
  /\ IsMember(id, u)
  /\ srvMembers' = {m \in srvMembers : ~(m.project_id = id /\ m.user_id = u)}
  /\ UNCHANGED <<srvProjects, srvUsed, user, projects, channel, notifs, fetches, op, lastFetch>>
  /\ UNCHANGED effVars

\* ---------------------------------------------------------------- initial state
Init ==
  /\ srvProjects = {}
  /\ srvUsed = {}
  /\ srvMembers = {}
  /\ user = NoUser
  /\ projects = <<>>
  /\ channel = NoUser
  /\ notifs = <<>>
  /\ fetches = [r \in 1..MaxFetch |-> IdleRun]
  /\ op = NoOp
  /\ lastFetch = NoHistory
  /\ mounted = TRUE
  /\ channels = <<>>
  /\ session = NoUser
  /\ loading = TRUE
  /\ getSession = "pending"
  /\ beforeJoin = NoJoin

\* the user, on the device
UserActs ==
  \/ \E u \in Device \cup {NoUser} : SetUser(u)
  \/ CallAddProject
  \/ \E id \in Pids : CallDeleteProject(id)
  \/ \E id \in Pids : CallJoinProject(id)
  \/ \E id \in Pids, role \in RoleNames : CallJoinRole(id, role)
  \/ \E id \in Pids : CallLeaveProject(id)

\* the other clients of the backend
OthersAct ==
  \/ \E u \in Users : RemoteInsertProject(u)
  \/ \E id \in Pids : RemoteSaveTasks(id)
  \/ \E id \in Pids : RemoteDeleteProject(id)
  \/ \E id \in Pids, u \in Device : RemoteInsertMember(id, u)
  \/ \E id \in Pids, u \in Device : RemoteDeleteMember(id, u)

\* the event loop takes a response or a queued event; fail: the response is an error
Answers(fail) ==
  \/ \E r \in 1..MaxFetch : FetchOwnedResp(r, fail)
  \/ \E r \in 1..MaxFetch : FetchMemberIdsResp(r, fail)
  \/ \E r \in 1..MaxFetch : FetchDetailsResp(r, fail)
  \/ AddInsertResp(fail)
  \/ AddMemberResp(fail)
  \/ DeleteResp(fail)
  \/ \E passwordOk \in BOOLEAN : JoinVerifyResp(fail, passwordOk)
  \/ JoinMemberResp(fail)
  \/ JoinRoleResp(fail)
  \/ LeaveResp(fail)

Next ==
  \/ UserActs
  \/ OthersAct
  \/ \E fail \in BOOLEAN : Answers(fail)
  \/ Deliver

Spec == Init /\ [][Next]_vars

\* ---------------------------------------------------------------- no request fails
\* the backend answers every request without a transport error, and the event loop
\* eventually takes every answer and every queued event
NextReliable ==
  \/ UserActs
  \/ OthersAct
  \/ Answers(FALSE)
  \/ Deliver

SpecReliable == Init /\ [][NextReliable]_vars /\ WF_vars(Answers(FALSE) \/ Deliver)

\* ---------------------------------------------------------------- every request is answered
\* the answers to the requests of the invocation in flight
OpAnswers(fail) ==
  \/ AddInsertResp(fail)
  \/ AddMemberResp(fail)
  \/ DeleteResp(fail)
  \/ \E passwordOk \in BOOLEAN : JoinVerifyResp(fail, passwordOk)
  \/ JoinMemberResp(fail)
  \/ JoinRoleResp(fail)
  \/ LeaveResp(fail)

\* the answers to the lookups of run r of fetchProjects
RunAnswers(r, fail) ==
  \/ FetchOwnedResp(r, fail)
  \/ FetchMemberIdsResp(r, fail)
  \/ FetchDetailsResp(r, fail)

\* the device alone with the backend: no other client acts
NextDevice ==
  \/ UserActs
  \/ \E fail \in BOOLEAN : Answers(fail)
  \/ Deliver

\* every request gets an answer, a success or an error, and the event loop takes it
SpecAnswered ==
  /\ Init /\ [][NextDevice]_vars
  /\ WF_vars(\E fail \in BOOLEAN : OpAnswers(fail))
  /\ \A r \in 1..MaxFetch : WF_vars(\E fail \in BOOLEAN : RunAnswers(r, fail))

\* ---------------------------------------------------------------- the merge alone
\* fetchProjects against every content of the two relations: a user is signed in,
\* the effect has just run, and other clients change rows between the lookups
AllRows == [id : Pids, user_id : Users, due_date : DueDates]

Tables == {T \in SUBSET AllRows : \A a, b \in T : a.id = b.id => a = b}

MembershipOf(u, id) == [project_id |-> id, user_id |-> u, role |-> "member"]

InitMerge ==
  /\ srvProjects \in Tables
  /\ srvUsed = {r.id : r \in srvProjects}
  /\ srvMembers \in SUBSET {MembershipOf("u1", id) : id \in srvUsed}
  /\ user = "u1"
  /\ projects = <<>>
  /\ channel = "u1"
  /\ notifs = <<>>
  /\ fetches = [r \in 1..MaxFetch |->
                 IF r = 1 THEN [IdleRun EXCEPT !.pc = "owned", !.user = "u1"]
                 ELSE IdleRun]
  /\ op = NoOp
  /\ lastFetch = NoFetch
  /\ mounted = TRUE
  /\ channels = <<"u1">>
  /\ session = "u1"
  /\ loading = FALSE
  /\ getSession = "resolved"
  /\ beforeJoin = NoJoin

NextMerge ==
  \/ \E r \in 1..MaxFetch, fail \in BOOLEAN : FetchOwnedResp(r, fail)
  \/ \E r \in 1..MaxFetch, fail \in BOOLEAN : FetchMemberIdsResp(r, fail)
  \/ \E r \in 1..MaxFetch, fail \in BOOLEAN : FetchDetailsResp(r, fail)
  \/ Deliver
  \/ \E id \in Pids, due \in DueDates : RemoteUpdateDueDate(id, due)
  \/ \E id \in Pids : RemoteDeleteProject(id)

SpecMerge == InitMerge /\ [][NextMerge]_vars

\* ---- joinProject and leaveProject alone -------------------------------
\* The user is signed in, the first fetch is over, and nothing happens but
\* the user's joins, each followed at once by the leave of the project just
\* joined: no fetch runs, no notification is delivered and no other client
\* writes.  Any table, any membership rows of the user and any duplicate-free
\* list of at most MaxList rows are a start.

MaxList == 2

Lists == UNION {Orderings(S) : S \in {T \in SUBSET AllRows :
                   /\ Cardinality(T) <= MaxList
                   /\ \A a, b \in T : a.id = b.id => a = b}}

MemberTables ==
  {M \in SUBSET [project_id : Pids, user_id : {"u1"}, role : {"admin", "member"}] :
     \A a, b \in M : a.project_id = b.project_id => a = b}

InitRoundTrip ==
  /\ srvProjects \in Tables
  /\ srvUsed = {r.id : r \in srvProjects}
  /\ srvMembers \in {M \in MemberTables : \A m \in M : m.project_id \in srvUsed}
  /\ user = "u1"
  /\ projects \in Lists
  /\ channel = "u1"
  /\ notifs = <<>>
  /\ fetches = [r \in 1..MaxFetch |-> IdleRun]
  /\ op = NoOp
  /\ lastFetch = NoFetch
  /\ mounted = TRUE
  /\ channels = <<"u1">>
  /\ session = "u1"
  /\ loading = FALSE
  /\ getSession = "resolved"
  /\ beforeJoin = [NoJoin EXCEPT !.on = TRUE]

\* leaveProject is called for the project that joinProject has just returned
LeaveJoined ==
  /\ op.kind = "joinProject" /\ op.error = "none" /\ op.result \in Pids
  /\ CallLeaveProject(op.result)

NextRoundTrip ==
  \/ \E id \in Pids : CallJoinProject(id)
  \/ \E fail, passwordOk \in BOOLEAN : JoinVerifyResp(fail, passwordOk)
  \/ \E fail \in BOOLEAN : JoinMemberResp(fail)
  \/ LeaveJoined
  \/ \E fail \in BOOLEAN : LeaveResp(fail)

SpecRoundTrip == InitRoundTrip /\ [][NextRoundTrip]_vars

\* ---------------------------------------------------------------- the session alone
\* the effect on [user] with every user of the model signing in and out on the
\* device and the provider unmounting; no operation is called. An unmounted
\* provider has no state to observe: what a run still in flight stores is lost.
NextSession ==
  \/ \E u \in Users \cup {NoUser} : SetUser(u)
  \/ Unmount
  \/ \E r \in 1..MaxRuns, fail \in BOOLEAN : FetchOwnedResp(r, fail)
  \/ \E r \in 1..MaxRuns, fail \in BOOLEAN : FetchMemberIdsResp(r, fail)
  \/ \E r \in 1..MaxRuns, fail \in BOOLEAN : FetchDetailsResp(r, fail)
  \/ Deliver
  \/ \E u \in Users : RemoteInsertProject(u)
  \/ \E id \in Pids : RemoteSaveTasks(id)
  \/ \E id \in Pids : RemoteDeleteProject(id)
  \/ \E id \in Pids, u \in Users : RemoteInsertMember(id, u)

\* a run of the previous user can be in flight when the next user's run starts
InitSession ==
  /\ srvProjects = {}
  /\ srvUsed = {}
  /\ srvMembers = {}
  /\ user = NoUser
  /\ projects = <<>>
  /\ channel = NoUser
  /\ notifs = <<>>
  /\ fetches = [r \in 1..MaxRuns |-> IdleRun]
  /\ op = NoOp
  /\ lastFetch = NoHistory
  /\ mounted = TRUE
  /\ channels = <<>>
  /\ session = NoUser
  /\ loading = TRUE
  /\ getSession = "pending"
  /\ beforeJoin = NoJoin

SpecSession == InitSession /\ [][NextSession]_vars

\* ---------------------------------------------------------------- the session holder
\* AuthProvider (part_000): the effect of its mount has issued getSession() and
\* registered the onAuthStateChange handler

\* nothing of the store moves: the user handed to the provider is the same
SameUser ==
  UNCHANGED <<srvVars, user, projects, channel, notifs, fetches, op, lastFetch,
              mounted, channels, beforeJoin>>

\* lines 20-25: getSession() resolves with a session of user u, or with none
GetSessionResolves(u) ==
  /\ getSession = "pending"
  /\ getSession' = "resolved"
  /\ session' = u
  /\ loading' = FALSE
  /\ IF u # user THEN RunEffect(u) ELSE SameUser

\* variant: the catch handler only logs
GetSessionRejectsSilently ==
  /\ getSession = "pending"
  /\ getSession' = "rejected"
  /\ UNCHANGED <<session, loading>>
  /\ SameUser

\* lines 26-29: getSession() rejects
GetSessionRejects ==
  /\ getSession = "pending"
  /\ getSession' = "rejected"
  /\ loading' = FALSE
  /\ UNCHANGED session
  /\ SameUser

\* lines 31-37: an auth event with a session of user u, or with none
AuthStateChange(u) ==
  /\ session' = u
  /\ loading' = FALSE
  /\ UNCHANGED getSession
  /\ IF u # user THEN RunEffect(u) ELSE SameUser

\* RootLayoutContent (_layout.tsx, lines 20-22)
SplashShown == loading = TRUE

GetSessionSettles ==
  \/ \E u \in Users \cup {NoUser} : GetSessionResolves(u)
  \/ GetSessionRejects

NextAuth ==
  \/ \E u \in Users \cup {NoUser} : GetSessionResolves(u)
  \/ GetSessionRejects
  \/ \E u \in Users \cup {NoUser} : AuthStateChange(u)
  \/ \E r \in 1..MaxFetch, fail \in BOOLEAN : FetchOwnedResp(r, fail)
  \/ \E r \in 1..MaxFetch, fail \in BOOLEAN : FetchMemberIdsResp(r, fail)
  \/ \E r \in 1..MaxFetch, fail \in BOOLEAN : FetchDetailsResp(r, fail)
  \/ Deliver
  \/ \E u \in Users : RemoteInsertProject(u)
  \/ \E id \in Pids : RemoteDeleteProject(id)
  \/ \E id \in Pids, u \in Users : RemoteInsertMember(id, u)

\* the promise of getSession() settles
SpecAuth == Init /\ [][NextAuth]_vars /\ WF_vars(GetSessionSettles)

\* ================================================================ properties
NoDuplicateIds(s) == \A i, j \in DOMAIN s : i # j => s[i].id # s[j].id

Occurrences(s, id) == Cardinality({i \in DOMAIN s : s[i].id = id})

\* a run of fetchProjects ends in this step
RunEnds(r) == fetches[r].pc # "idle" /\ fetches'[r].pc = "idle"

AnyRunEnds == \E r \in Slots : RunEnds(r)

\* the first position of id in s
FirstPos(s, id) ==
  CHOOSE i \in DOMAIN s : s[i].id = id /\ \A j \in 1..(i - 1) : s[j].id # id

\* C2: the list that fetchProjects stores has no two entries with the same
\* identifier and holds every identifier of the owned-projects result and of the
\* member-projects result, whatever the two results are (overlapping or not).
C2_MergedNoDuplicates ==
  [][AnyRunEnds /\ lastFetch'.error # "owned" =>
       /\ NoDuplicateIds(projects')
       /\ Ids(projects') = Ids(lastFetch'.ownedProjects) \cup Ids(lastFetch'.memberProjects)
    ]_vars

\* a merge of overlapping results has been stored
C2_Witness ==
  /\ Ids(lastFetch.ownedProjects) \cap Ids(lastFetch.memberProjects) # {}
  /\ Len(lastFetch.memberProjects) = 2
  /\ Ids(projects) = Ids(lastFetch.ownedProjects) \cup Ids(lastFetch.memberProjects)

\* C3: the stored list keeps, for each identifier, the first occurrence in
\* owned ++ member (the owned version wins), in the order of those first
\* occurrences, the owned projects before the projects only the member lookup gave.
C3_FirstOccurrenceKept ==
  [][AnyRunEnds /\ lastFetch'.error # "owned" =>
       LET owned == lastFetch'.ownedProjects
           all == owned \o lastFetch'.memberProjects
       IN /\ \A k \in DOMAIN projects' :
               /\ projects'[k].id \in Ids(all)
               /\ projects'[k] = all[FirstPos(all, projects'[k].id)]
          /\ \A k, l \in DOMAIN projects' :
               k < l => FirstPos(all, projects'[k].id) < FirstPos(all, projects'[l].id)
          /\ \A k, l \in DOMAIN projects' :
               projects'[k].id \in Ids(owned) /\ projects'[l].id \notin Ids(owned) => k < l
    ]_vars

\* the two lookups returned different versions of a row and the owned one is listed
C3_Witness ==
  \E i \in DOMAIN lastFetch.ownedProjects, j \in DOMAIN lastFetch.memberProjects :
    /\ lastFetch.ownedProjects[i].id = lastFetch.memberProjects[j].id
    /\ lastFetch.ownedProjects[i] # lastFetch.memberProjects[j]
    /\ Len(lastFetch.memberProjects) = 2
    /\ lastFetch.memberProjects[1].id \notin Ids(lastFetch.ownedProjects)
    /\ projects = <<lastFetch.ownedProjects[i], lastFetch.memberProjects[1]>>

\* C6 as claimed: a run of fetchProjects one of whose lookups returned an error
\* leaves the local project list as it was.
C6_ErrorLeavesListUnchanged ==
  [][AnyRunEnds /\ lastFetch'.error # "none" => projects' = projects]_vars

\* C6 amended: an error of the owned-projects lookup empties the list, an error of
\* the membership-identifier or of the member-projects lookup replaces the list by
\* the owned projects the run read.
C6_ErrorReplacesList ==
  [][AnyRunEnds =>
       /\ lastFetch'.error = "owned" => projects' = <<>>
       /\ lastFetch'.error \in {"memberIds", "projects"} =>
            projects' = lastFetch'.ownedProjects
    ]_vars

\* a listed project is gone after a run that ended by an error of a member lookup
C6_Witness ==
  /\ lastFetch.error \in {"memberIds", "projects"}
  /\ lastFetch.ownedProjects # <<>>
  /\ projects = lastFetch.ownedProjects
  /\ \E m \in srvMembers : m.user_id = user /\ m.project_id \notin Ids(projects)

\* the projects of the backend that the current user owns or is a member of
UnionIds ==
  IF user = NoUser THEN {}
  ELSE {r.id : r \in OwnedRows(user)} \cup {r.id : r \in RowsIn(MemberIdsOf(user))}

\* no request is outstanding and no event is queued
Quiescent ==
  /\ \A r \in Slots : fetches[r].pc = "idle"
  /\ op.pc = "done"
  /\ notifs = <<>>

\* C1 as claimed, for the steps between states where nothing is in flight: if the
\* identifiers of the local project list are those of the projects the current
\* user owns or is a member of on the backend, they still are after the step.
C1_ListIsUnion ==
  [][Quiescent /\ Ids(projects) = UnionIds /\ Quiescent' => Ids(projects') = UnionIds']_vars

\* C4 as claimed: once other clients and the user stop acting and every response
\* and event is taken, the local list becomes the union of the user's owned and
\* membership-linked projects and stays so.
C4_Converges == <>[][Answers(FALSE) \/ Deliver]_vars => <>[](Ids(projects) = UnionIds)

\* ---------------------------------------------------------------- operations' steps
\* the invocation in flight returns in this step
OpReturns(kind) == op.kind = kind /\ op.pc # "done" /\ op'.pc = "done"

\* a request of the operation returned an error and the operation returns
RemoteError == op'.error \in {"other", "23505"}

\* after is before without its entries of identifier id: the others stay, in order
RemovedOnly(before, after, id) ==
  LET kept == {i \in DOMAIN before : before[i].id # id}
      nth(k) == CHOOSE i \in kept : Cardinality({j \in kept : j <= i}) = k
  IN /\ Len(after) = Cardinality(kept)
     /\ \A k \in DOMAIN after : after[k] = before[nth(k)]

\* C5 as claimed: add, delete, join or leave returning after one of its requests
\* returned an error returns null / void and the list is what it was.
C5_ErrorLeavesList ==
  [][\A kind \in {"addProject", "deleteProject", "joinProject", "leaveProject"} :
       OpReturns(kind) /\ RemoteError =>
         /\ op'.result \in {"null", "void"}
         /\ projects' = projects
    ]_vars

\* C5 amended: the operation changes the list in no step but the one in which it
\* returns; when it returns after an error of its project insert (add), of its
\* delete (delete, leave), of the password verification or of a membership insert
\* refused with a code other than 23505 (join), it returns null / void and that
\* step leaves the list as it is. After an error of add's admin membership insert
\* the project is returned and listed all the same.
C5_ErrorLeavesListExcept ==
  [][/\ op' # op /\ ~(op.pc # "done" /\ op'.pc = "done") => projects' = projects
     /\ \A kind \in {"addProject", "deleteProject", "joinProject", "leaveProject"} :
          OpReturns(kind) /\ RemoteError =>
            IF kind = "addProject" /\ op.pc = "member"
            THEN /\ op'.result = op.project.id
                 /\ Occurrences(projects', op.project.id) >= 1
            ELSE IF op'.error = "23505"
            THEN op'.result # "null"
            ELSE /\ op'.result = (IF kind \in {"addProject", "joinProject"}
                                  THEN "null" ELSE "void")
                 /\ projects' = projects
    ]_vars

\* a delete has failed and the project it named is still listed
C5_Witness ==
  /\ op.kind = "deleteProject" /\ op.pc = "done" /\ op.error = "other"
  /\ op.id \in Ids(projects)
  /\ Len(projects) = 2

\* C7: joinProject whose membership insert is refused with 23505 returns the
\* project, adds no membership row (one row for the pair remains) and leaves the
\* project listed exactly once.
C7_AlreadyMemberJoins ==
  [][OpReturns("joinProject") /\ op'.error = "23505" =>
       /\ op'.result = op.project.id
       /\ op'.result # "null"
       /\ srvMembers' = srvMembers
       /\ Cardinality({m \in srvMembers' :
             m.project_id = op.project.id /\ m.user_id = op.user}) = 1
       /\ Occurrences(projects', op.project.id) = 1
    ]_vars

\* a join of a project already listed and already joined has returned the project
C7_Witness ==
  /\ op.kind = "joinProject" /\ op.pc = "done" /\ op.error = "23505"
  /\ op.result = op.id
  /\ Occurrences(projects, op.id) = 1
  /\ IsMember(op.id, user)

\* C8: a leaveProject(p) that succeeds removes the entry of p from the list, keeps
\* every other entry in its place relative to the others, and adds none.
C8_LeaveRemovesOnlyThat ==
  [][OpReturns("leaveProject") /\ op'.error = "none" =>
       /\ RemovedOnly(projects, projects', op.id)
       /\ op.id \notin Ids(projects')
       /\ Ids(projects') \subseteq Ids(projects)
    ]_vars

\* the user has left a project and the other one is still listed
C8_Witness ==
  /\ op.kind = "leaveProject" /\ op.pc = "done" /\ op.error = "none"
  /\ user # NoUser
  /\ ~IsMember(op.id, user)
  /\ Len(projects) = 1
  /\ op.id \notin Ids(projects)

\* C9: a deleteProject(id) that succeeds removes the entry of id from the list and
\* leaves the others, and starts no run of fetchProjects.
C9_DeleteFiltersLocally ==
  [][OpReturns("deleteProject") /\ op'.error = "none" =>
       /\ RemovedOnly(projects, projects', op.id)
       /\ op.id \notin Ids(projects')
       /\ fetches' = fetches
    ]_vars

\* a project has been deleted, the other one is still listed and no run is in flight
C9_Witness ==
  /\ op.kind = "deleteProject" /\ op.pc = "done" /\ op.error = "none"
  /\ ~Live(op.id) /\ op.id \in srvUsed
  /\ Len(projects) = 1
  /\ op.id \notin Ids(projects)
  /\ \A r \in Slots : fetches[r].pc = "idle"

\* the channel's handler takes the event at the head of the queue in this step
Delivered == notifs # <<>> /\ notifs' = Tail(notifs) /\ user' = user

\* C10: the handler of a DELETE on projects removes the entry whose identifier is
\* payload.old.id and no other, starts no run of fetchProjects, and leaves the
\* list as it is when that identifier is not listed.
C10_DeleteEventFilters ==
  [][Delivered /\ Head(notifs).event = "DELETE" =>
       /\ RemovedOnly(projects, projects', Head(notifs).id)
       /\ Head(notifs).id \notin Ids(projects')
       /\ fetches' = fetches
       /\ Head(notifs).id \notin Ids(projects) => projects' = projects
    ]_vars

\* another client deleted a listed project: the event took it off the list
C10_Witness ==
  /\ notifs = <<>>
  /\ op.kind # "deleteProject"
  /\ Len(projects) = 1
  /\ \E id \in srvUsed : ~Live(id) /\ id \notin Ids(projects)
  /\ \A i \in DOMAIN projects : Live(projects[i].id)
  /\ \A r \in Slots : fetches[r].pc = "idle"
  /\ Cardinality(srvUsed) = 2

\* ---------------------------------------------------------------- optimistic updates
ListOps == {"addProject", "deleteProject", "joinProject", "leaveProject"}

\* a step of the invocation of add, delete, join or leave that changes the list
OpChangesList == op' # op /\ op'.kind \in ListOps /\ projects' # projects

\* C11 as claimed: add, delete, join and leave change the local list only in the
\* step in which the answer to their last request is taken, and only when no
\* request of theirs returned an error.
C11_ListChangedOnSuccessOnly ==
  [][OpChangesList => op.pc # "done" /\ op'.pc = "done" /\ op'.error = "none"]_vars

\* C11 amended: add, delete, join and leave change the local list only in the step
\* in which the answer to their last request is taken (never at the call, never
\* between two requests), and only when that answer is a success, or the error of
\* addProject's admin membership insert, or joinProject's 23505.
C11_ListChangedAfterAnswer ==
  [][OpChangesList =>
       /\ op.pc # "done" /\ op'.pc = "done"
       /\ \/ op'.error = "none"
          \/ op.kind = "addProject" /\ op.pc = "member" /\ op'.error = "other"
          \/ op.kind = "joinProject" /\ op.pc = "member" /\ op'.error = "23505"
    ]_vars

\* addProject has returned the project it created: listed, with its admin row
C11_Witness ==
  /\ op.kind = "addProject" /\ op.pc = "done" /\ op.error = "none"
  /\ op.result \in Ids(projects)
  /\ IsMember(op.result, user)
  /\ Len(projects) = 2

\* ---------------------------------------------------------------- re-synchronisation
\* run r of fetchProjects starts in this step, for user u
RunStarts(r, u) ==
  /\ fetches[r].pc = "idle"
  /\ fetches'[r] = [IdleRun EXCEPT !.pc = "owned", !.user = u]

\* exactly one run starts in this step, for user u, and no other run moves
OneRunStarts(u) ==
  \E r \in Slots : RunStarts(r, u) /\ \A q \in Slots \ {r} : fetches'[q] = fetches[q]

AnyRunStarts == \E r \in Slots : fetches[r].pc = "idle" /\ fetches'[r].pc # "idle"

RefetchKinds ==
  {[table |-> "projects", event |-> "INSERT"], [table |-> "projects", event |-> "UPDATE"],
   [table |-> "project_members", event |-> "INSERT"]}

KindOf(n) == [table |-> n.table, event |-> n.event]

\* C12: an event handed to the channel starts exactly one run of fetchProjects (for
\* the user of the channel) when it is an INSERT on projects, an UPDATE on projects
\* or an INSERT on project_members, and none otherwise; the INSERT events that reach
\* the channel are those of rows of the channel's user; while the user stays the
\* same nothing but such an event starts a run.
C12_NotificationsRefetch ==
  [][/\ Delivered =>
          IF KindOf(Head(notifs)) \in RefetchKinds
          THEN OneRunStarts(channel) /\ projects' = projects
          ELSE fetches' = fetches
     /\ AnyRunStarts /\ user' = user =>
          Delivered /\ KindOf(Head(notifs)) \in RefetchKinds
     /\ Len(notifs') > Len(notifs) =>
          LET n == notifs'[Len(notifs')]
          IN /\ KindOf(n) \in RefetchKinds \cup {[table |-> "projects", event |-> "DELETE"]}
             /\ KindOf(n) = [table |-> "projects", event |-> "INSERT"] =>
                  \E r \in srvProjects' \ srvProjects : r.user_id = channel
             /\ n.table = "project_members" =>
                  \E m \in srvMembers' \ srvMembers : m.user_id = channel
    ]_vars

\* no operation was ever called, a project is listed, and a further run of
\* fetchProjects is at its first lookup: an event of another client started it
C12_Witness ==
  /\ user # NoUser
  /\ op = NoOp
  /\ projects # <<>>
  /\ notifs = <<>>
  /\ \E r \in Slots : fetches[r].pc = "owned" /\ fetches[r].user = user

\* ---------------------------------------------------------------- last write wins
\* what run r can store when the answer to its pending lookup is taken: nothing of
\* the list held enters it
Storable(r) ==
  IF fetches[r].pc = "owned" THEN {<<>>}
  ELSE IF fetches[r].pc = "memberIds" THEN {fetches[r].ownedProjects}
  ELSE {fetches[r].ownedProjects} \cup
       {FilterFirst(fetches[r].ownedProjects \o m, 1) :
          m \in Orderings(RowsIn(fetches[r].projectIds))}

\* s with p at its end unless an entry of s has the identifier of p
OnTop(s, p) == IF p.id \in Ids(s) THEN s ELSE s \o <<p>>

\* C13: the writes to the local list are applied in the order in which they are
\* made. A run of fetchProjects that ends stores the result of its own lookups,
\* whatever the list held (an optimistic change made meanwhile is overwritten);
\* add, join, delete and leave apply their change to the list they find (the
\* result of the last run that ended, when one ended before them).
C13_LastWriteWins ==
  [][/\ \A r \in Slots : RunEnds(r) => projects' \in Storable(r)
     /\ \A kind \in {"addProject", "joinProject"} :
          OpReturns(kind) /\ op.pc = "member" /\ op'.result # "null" =>
            projects' = OnTop(projects, op.project)
     /\ \A kind \in {"deleteProject", "leaveProject"} :
          OpReturns(kind) /\ op'.error = "none" =>
            RemovedOnly(projects, projects', op.id)
    ]_vars

\* addProject returned a project of the user that is still on the backend, the
\* project was listed, and a run of fetchProjects whose owned-projects lookup did
\* not return it has since stored its result: the project is not listed
C13_Witness ==
  /\ op.kind = "addProject" /\ op.pc = "done" /\ op.result \in Pids
  /\ Live(op.result) /\ RowOf(op.result).user_id = user
  /\ op.result \notin Ids(projects)
  /\ \A r \in Slots : fetches[r].pc = "idle"

\* ---------------------------------------------------------------- the channel
\* the channels registered are the one of the known user of a mounted provider
ChannelScoped ==
  /\ Len(channels) <= 1
  /\ channels = (IF mounted /\ user # NoUser THEN <<user>> ELSE <<>>)
  /\ channel = (IF mounted THEN user ELSE NoUser)

\* C14: a channel is registered exactly while the provider is mounted and a user
\* is known, with that user in its filters; it is registered when the user becomes
\* known, the channel of the previous user is removed when the user changes or the
\* provider unmounts, so that at most one channel is registered at any time and
\* none after the unmount.
C14_ChannelScoped ==
  [][/\ ChannelScoped /\ ChannelScoped'
     /\ channels' # channels => user' # user \/ (mounted /\ ~mounted')
     /\ user' # user /\ user # NoUser => \A i \in DOMAIN channels' : channels'[i] # user
     /\ user' # user /\ user' # NoUser => channels' = <<user'>>
     /\ ~mounted' => channels' = <<>> /\ notifs' = <<>>
    ]_vars

\* the provider was unmounted while u2 was signed in: no channel is left
C14_Witness ==
  /\ ~mounted
  /\ user = "u2"
  /\ channels = <<>>
  /\ projects # <<>>

\* ---------------------------------------------------------------- no retry, no fatal error
\* the position of an invocation among its requests
OpRank(pc) == IF pc = "done" THEN 3 ELSE IF pc = "member" THEN 2 ELSE 1

RunRank(pc) ==
  IF pc = "idle" THEN 4 ELSE IF pc = "details" THEN 3 ELSE IF pc = "memberIds" THEN 2 ELSE 1

ResultsOf(kind) ==
  IF kind \in {"addProject", "joinProject"} THEN Pids \cup {"null"} ELSE {"void"}

\* C15: an invocation of add, delete, join, joinRole, leave or fetchProjects moves
\* from each request to the next one or to its end, never back to a request it has
\* issued (no retry); whatever the answers are, success or error, it returns: a
\* project or null (add, join), void (delete, joinRole, leave), or the end of the
\* run (fetchProjects).
C15_NoRetryNoFatal ==
  /\ [][/\ op.pc # "done" /\ op' # op =>
            /\ OpRank(op'.pc) > OpRank(op.pc)
            /\ op'.kind = op.kind
            /\ op'.pc = "done" => op'.result \in ResultsOf(op.kind)
         /\ \A r \in Slots :
              fetches[r].pc # "idle" /\ fetches'[r] # fetches[r] =>
                RunRank(fetches'[r].pc) > RunRank(fetches[r].pc)
       ]_vars
  /\ (op.pc # "done") ~> (op.pc = "done")
  /\ \A r \in 1..MaxFetch : (fetches[r].pc # "idle") ~> (fetches[r].pc = "idle")

\* joinProject has returned null after the error of its second request
C15_Witness ==
  /\ op.kind = "joinProject" /\ op.pc = "done" /\ op.error = "other"
  /\ op.result = "null"
  /\ Live(op.id) /\ ~IsMember(op.id, user) /\ user # NoUser

\* ---------------------------------------------------------------- change of user
\* C16: when the user becomes null the local list is emptied in the same step and
\* no run of fetchProjects starts; when the user becomes another, non-null user
\* exactly one run starts, with the identifier of that user in its lookups.
C16_UserChangeResyncs ==
  [][user' # user =>
       IF user' = NoUser
       THEN projects' = <<>> /\ fetches' = fetches
       ELSE OneRunStarts(user') /\ projects' = projects
    ]_vars

\* u2 has just taken over from u1: the run for u2 is at its first lookup and the
\* list is still the one u1 left
C16_Witness ==
  /\ user = "u2"
  /\ \E r \in Slots : fetches[r].pc = "owned" /\ fetches[r].user = "u2"
  /\ projects # <<>>
  /\ \A i \in DOMAIN projects : projects[i].user_id = "u1" /\ ~IsMember(projects[i].id, "u2")

\* ---------------------------------------------------------------- membership rows
RowsOfPair(id, u) == {m \in srvMembers : m.project_id = id /\ m.user_id = u}

C18_RolesAdminOrMember == \A m \in srvMembers : m.role \in {"admin", "member"}

\* the rows of project_members written in this step
Written == srvMembers' \ srvMembers

\* C18 amended: the row addProject writes has the role 'admin', the row joinProject
\* writes has the role 'member', and the row joinRole writes has the role given as
\* its argument, whatever that string is.
C18_RolesAsWritten ==
  [][op' # op =>
       \A m \in Written :
         /\ op.kind = "addProject" => m.role = "admin"
         /\ op.kind = "joinProject" => m.role = "member"
         /\ op.kind = "joinRole" => m.role = op.result
         /\ op.kind \in {"addProject", "joinProject", "joinRole"}
    ]_vars

\* joinRole has given the user the role 'designer' in a project of another user
C18_Witness ==
  /\ op.kind = "joinRole" /\ op.pc = "done" /\ op.error = "none"
  /\ Live(op.id) /\ RowOf(op.id).user_id # user
  /\ RowsOfPair(op.id, user) = {[project_id |-> op.id, user_id |-> user, role |-> "designer"]}

\* ---------------------------------------------------------------- the loading flag
\* C19: the loading flag is true at the start; it is false after the step in which
\* getSession() resolves or rejects and after every auth event, it never goes back
\* to true, and nothing else changes it; when getSession() settles, as it
\* eventually does, the splash screen is left for good.
C19_LoadingEnds ==
  /\ SplashShown = TRUE
  /\ [][/\ loading' => loading
        /\ getSession' # getSession => ~loading'
        /\ session' # session \/ user' # user => ~loading'
        /\ loading' # loading =>
             \/ getSession' # getSession
             \/ user' # user
             \/ UNCHANGED <<srvVars, op, fetches, notifs, projects>>
       ]_vars
  /\ <>[](SplashShown = FALSE)

\* getSession() has rejected and no session is held: the splash screen is left
C19_Witness ==
  /\ getSession = "rejected"
  /\ session = NoUser /\ user = NoUser
  /\ ~loading
  /\ srvProjects = {}

\* ---------------------------------------------------------------- signed out
\* C20 as claimed: while no user is signed in the local project list is empty, in
\* every reachable state, a run of fetchProjects of the previous user ending after
\* the sign-out included.
C20_NoUserEmptyList == user = NoUser => projects = <<>>

\* ---------------------------------------------------------------- user isolation
\* C21 as claimed: once the user has changed, a run of fetchProjects started for
\* the previous user does not set the list shown to the user now signed in.
C21_UserIsolation ==
  [][\A r \in Slots :
       RunEnds(r) /\ user' # NoUser /\ fetches[r].user # user' => projects' = projects
    ]_vars

\* ---------------------------------------------------------------- the list as a whole
\* C22: in every reachable state the local project list has no two entries with
\* the same identifier, whatever runs of fetchProjects, DELETE events and add,
\* join, delete and leave invocations have ended, in whatever order.
C22_ListNoDuplicates == NoDuplicateIds(projects)

\* the user owns and is a member of a project that addProject returned; the runs
\* its INSERT events started have ended and the project is listed once, after another
C22_Witness ==
  /\ op.kind = "addProject" /\ op.pc = "done" /\ op.error = "none"
  /\ IsMember(op.result, user) /\ Live(op.result)
  /\ Quiescent
  /\ Len(projects) = 2
  /\ Occurrences(projects, op.result) = 1

\* a user is signed in, deleteProject(id) has returned without error, the project
\* is gone from the backend and from the list, and no event is waiting
DeletedAndGone ==
  /\ user # NoUser
  /\ op.kind = "deleteProject" /\ op.pc = "done" /\ op.error = "none"
  /\ op.id \in srvUsed /\ ~Live(op.id)
  /\ op.id \notin Ids(projects)
  /\ notifs = <<>>

\* C23 as claimed: once deleteProject(id) has succeeded and the list holds no
\* entry of identifier id, no step puts one back, whatever runs of fetchProjects
\* were in flight when the project was deleted.
C23_DeletedStaysOut ==
  [][DeletedAndGone /\ op' = op => op.id \notin Ids(projects')]_vars

\* ---------------------------------------------------------------- addProject's result
\* C24 as claimed: when addProject returns a project, project_members holds a row
\* of role 'admin' for that project and the user who created it.
C24_AddedHasAdmin ==
  [][OpReturns("addProject") /\ op'.result \in Pids =>
       [project_id |-> op'.result, user_id |-> op.user, role |-> "admin"] \in srvMembers'
    ]_vars

\* ---------------------------------------------------------------- partial failure
\* C25: a run of fetchProjects whose owned-projects lookup succeeded and whose
\* membership-identifier lookup or member-projects lookup returned an error stores
\* exactly the owned projects it read, each once; the member-projects lookup is
\* issued only with at least one membership identifier.
C25_DegradesToOwned ==
  [][\A r \in Slots :
       /\ RunEnds(r) /\ lastFetch'.error \in {"memberIds", "projects"} =>
            /\ fetches[r].pc \in {"memberIds", "details"}
            /\ projects' = fetches[r].ownedProjects
            /\ Ids(projects') = Ids(lastFetch'.ownedProjects)
            /\ NoDuplicateIds(projects')
       /\ RunEnds(r) /\ lastFetch'.error = "projects" => fetches[r].pc = "details"
       /\ fetches[r].pc = "memberIds" /\ fetches'[r].pc = "details" =>
            /\ fetches'[r].projectIds # {}
            /\ fetches'[r].projectIds = MemberIdsOf(fetches[r].user)
       /\ fetches[r].pc = "memberIds" /\ fetches'[r] # fetches[r]
            /\ MemberIdsOf(fetches[r].user) = {} => fetches'[r].pc = "idle"
    ]_vars

\* the member-projects lookup of a run returned an error: the one owned project is
\* listed and a project the user is a member of, owned by another user, is not
C25_Witness ==
  /\ lastFetch.error = "projects"
  /\ Len(lastFetch.ownedProjects) = 1
  /\ projects = lastFetch.ownedProjects
  /\ \E m \in srvMembers :
       /\ m.user_id = user /\ Live(m.project_id)
       /\ RowOf(m.project_id).user_id # user
       /\ m.project_id \notin Ids(projects)

\* ---------------------------------------------------------------- joinProject's guards
\* C26: joinProject goes on to the membership insert only when the verification
\* returned the project; when the verification errors or returns no row it returns
\* null with the list and project_members as they were and no insert issued; when
\* the insert is refused with a code other than 23505 it returns null with the
\* list and project_members as they were. It writes a row or changes the list
\* only in the step that takes the answer to its insert.
C26_JoinGuards ==
  [][op.kind = "joinProject" /\ op' # op /\ op.pc # "done" =>
       /\ op.pc = "verify" /\ op'.pc = "member" =>
            Live(op.id) /\ op'.project = RowOf(op.id)
       /\ op.pc = "verify" =>
            /\ projects' = projects /\ srvMembers' = srvMembers
            /\ op'.pc = "done" => op'.result = "null" /\ op'.error \in {"other", "invalid"}
       /\ op.pc = "member" /\ op'.error = "other" =>
            /\ op'.result = "null"
            /\ projects' = projects /\ srvMembers' = srvMembers
       /\ op'.result \in Pids => op.pc = "member" /\ op'.error \in {"none", "23505"}
    ]_vars

\* joinProject has returned null for a project that exists (the verification
\* returned no row or an error): the user is no member and the project is not listed
C26_Witness ==
  /\ op.kind = "joinProject" /\ op.pc = "done" /\ op.error \in {"invalid", "other"}
  /\ op.result = "null"
  /\ user # NoUser /\ Live(op.id) /\ RowOf(op.id).user_id # user
  /\ ~IsMember(op.id, user)
  /\ op.id \notin Ids(projects)
  /\ Quiescent

\* ---------------------------------------------------------------- no user
\* an exposed operation is called in this step
OpCalled == op.pc = "done" /\ op' # op

\* C27: called with no user signed in, addProject, joinProject, joinRole and
\* leaveProject return in the step of the call, null (add, join) or void (joinRole,
\* leave), without a request to the backend and with the list as it was.
C27_NoUserReturns ==
  [][OpCalled /\ user = NoUser
       /\ op'.kind \in {"addProject", "joinProject", "joinRole", "leaveProject"} =>
         /\ op'.pc = "done"
         /\ op'.error = "nouser"
         /\ op'.result = (IF op'.kind \in {"addProject", "joinProject"} THEN "null" ELSE "void")
         /\ projects' = projects
         /\ UNCHANGED <<srvVars, notifs, fetches>>
    ]_vars

\* leaveProject was called with no user signed in, for a project the user who
\* signed out is a member of: it returned and the row is still there
C27_Witness ==
  /\ user = NoUser
  /\ op.kind = "leaveProject" /\ op.pc = "done" /\ op.error = "nouser"
  /\ op.result = "void"
  /\ IsMember(op.id, "u1")

\* C28: a project the user neither owns nor belongs to, and that is not
\* listed, is joined and then left, both with success and with nothing else
\* in between: when leaveProject returns, the list and the user's membership
\* rows are exactly what they were when joinProject was called.
C28_JoinLeaveRoundTrip ==
  [][(/\ OpReturns("leaveProject") /\ op'.error = "none"
      /\ beforeJoin.fresh /\ beforeJoin.id = op.id
      /\ [project_id |-> op.id, user_id |-> op.user, role |-> "member"] \in srvMembers)
     => /\ projects' = beforeJoin.projects
        /\ RowsOfUser(user)' = beforeJoin.members]_vars

\* a listed project stays where it was through a join and a leave of another
\* one, whose INSERT notification is still waiting
C28_Witness ==
  /\ op.kind = "leaveProject" /\ op.pc = "done" /\ op.error = "none"
  /\ beforeJoin.fresh /\ beforeJoin.id = op.id
  /\ Len(notifs) = 1 /\ notifs[1].table = "project_members"
  /\ ~IsMember(op.id, "u1")
  /\ Len(projects) = 1 /\ projects = beforeJoin.projects
  /\ RowsOfUser("u1") = beforeJoin.members /\ beforeJoin.members # {}

\* C29: joinRole leaves the list alone, at its call and at the answer to its
\* upsert, failed or not; it changes no membership row of another project or
\* another user; a failed upsert changes no row at all, and a successful one
\* leaves the pair (projectId, calling user) with the one row of the given role.
C29_JoinRoleFrame ==
  [][(OpReturns("joinRole") \/ (OpCalled /\ op'.kind = "joinRole"))
     => /\ projects' = projects
        /\ LET id == op'.id
               u == IF OpCalled THEN user ELSE op.user
               others(M) == {m \in M : ~(m.project_id = id /\ m.user_id = u)}
           IN /\ others(srvMembers') = others(srvMembers)
              /\ IF OpReturns("joinRole") /\ op'.error = "none"
                 THEN srvMembers' \ others(srvMembers') =
                        {[project_id |-> id, user_id |-> u, role |-> op.result]}
                 ELSE srvMembers' = srvMembers]_vars

\* joinRole has turned the user's row of an unlisted project into 'designer'
\* while the list holds another project and another membership row stands
C29_Witness ==
  /\ op.kind = "joinRole" /\ op.pc = "done" /\ op.error = "none"
  /\ [project_id |-> op.id, user_id |-> "u1", role |-> "designer"] \in srvMembers
  /\ Cardinality(srvMembers) >= 2
  /\ Len(projects) = 1 /\ op.id \notin Ids(projects)
  /\ notifs = <<>>

\* the promise of getSession() resolves after an auth event was delivered:
\* only an event or the settling of the promise ends loading
LateResolution == getSession = "pending" /\ loading = FALSE /\ getSession' = "resolved"

\* C30: the user held is the user of the session held, and the resolution of
\* getSession() that comes after an auth event leaves the session that the
\* event delivered in place.
C30_SessionFresh ==
  [][/\ user' = session'
     /\ LateResolution => session' = session]_vars
====
